---- MODULE Spec2Model ----
(***************************************************************************)
(* Model of the chat service of Rag_Chatbot: the message table, the        *)
(* per-client session, start-up initialisation of the QA chain and the     *)
(* request handlers of app/application.py (main.py carries the same        *)
(* handler logic).  The POST handler is split at the points where it       *)
(* touches the shared message table; the backward pairing scan of the      *)
(* history window is modelled one loop iteration per step.                 *)
(***************************************************************************)
EXTENDS Integers, Naturals, Sequences, FiniteSets, TLC

(* ------------------------------ bounds --------------------------------- *)
\* rows the message table may hold before new questions stop being submitted
MaxMsgs == 8
\* conversation identifiers (uuid4 values) handed out in one run
MaxConv == 2
\* longest stored transcript (current question included) SpecWin starts from
MaxLen == 8
\* questions submitted in one run of SpecConc
MaxConcQuestions == 2
\* chunks handed to save_vector_store
MaxChunks == 2

(* ------------------------- program constants --------------------------- *)
\* application.py:82  if len(all_messages)>6
WindowThreshold == 6
\* application.py:83  all_messages[-6:-1]
SliceStart == 6
\* application.py:95  pairs_collected < 5
PairLimit == 5

\* application.py:61  "conversation_id" not in session
NoConv == 0
\* application.py:22  qa_chain = None
None == "None"
\* the object ConversationalRetrievalChain.from_llm returns (retriever.py:62)
Chain == "ConversationalRetrievalChain"

\* application.py:113-115, the message of the exception raised for a missing chain
NotInitializedMsg == "QA system not initialized. Please check server logs for configuration errors."
\* application.py:122, the default of response.get("answer", ...)
NoResponseMsg == "No response generated"
\* application.py:141, the literal part of the f-string
ApologyPrefix == "I apologize, but I encountered an error: "

(* --------------------------- environment ------------------------------- *)
\* the two service entry points: app/application.py (Flask), main.py (FastAPI)
EntryPoints == {"application", "main"}
\* browsers, each holding one session cookie
Clients == {"alice", "bob"}
\* requests that can be in flight; each is sent by one client
Requests == {"r1", "r2", "r3"}
ClientOf == [r \in Requests |-> IF r = "r3" THEN "bob" ELSE "alice"]
\* prompts a form can carry; "" is the blank prompt, None the missing field
Questions == {"What is cancer?", "Explain more on that."}
Blank == ""
BlankPrompts == {Blank, None}
\* what qa_chain.invoke can do: return a dict with or without "answer", or raise
Missing == "<no answer key>"
Answers == {"A group of diseases..."}
Causes == {"LLM backend timeout"}
PipelineOutcomes ==
    [kind : {"response"}, text : Answers \cup {Missing}]
        \cup [kind : {"raise"}, text : Causes]
\* texts of the turns of the transcripts SpecWin starts from, one per position
TurnText == <<"A", "B", "C", "D", "E", "F", "G", "H", "I", "J">>

VARIABLES
    started,          \* start-up (create_tables, initialize_qa_chain) has run
    vector_store,     \* what load_vector_store found at start-up
    llm,              \* what load_llm gave at start-up
    qa_chain,         \* the global qa_chain
    messages,         \* the message table, in timestamp order
    session,          \* client -> conversation_id of its session cookie
    nextConv,         \* conversation identifiers handed out so far
    pc,               \* request -> position in its handler
    conv_id,          \* request -> conv_id
    user_input,       \* request -> user_input / prompt
    before,           \* request -> transcript of conv_id when the handler was entered
    all_messages,     \* request -> all_messages
    prior_messages,   \* request -> prior_messages
    i,                \* request -> cursor of the backward scan (0-based, as in the code)
    pairs_collected,  \* request -> pairs_collected
    chat_history,     \* request -> chat_history
    invocations,      \* request -> calls of qa_chain.invoke made by the handler
    invoked,          \* request -> argument of the last qa_chain.invoke call
    exc,              \* request -> text of the exception the try block raised
    ai_msg,           \* request -> the assistant Message the handler stored
    response,         \* request -> what the handler returned
    route,            \* request -> the route it was sent to
    msg_lst,          \* request -> msg_lst, the list the page displays
    health_status,    \* request -> the status dict of the health check
    save_input,       \* ingestion: what save_vector_store is given and meets
    save_result,      \* ingestion: how save_vector_store ended
    entry             \* the entry point that is served: application.py or main.py

vars == <<started, vector_store, llm, qa_chain, messages, session, nextConv,
          pc, conv_id, user_input, before, all_messages, prior_messages, i,
          pairs_collected, chat_history, invocations, invoked, exc, ai_msg,
          response, route, msg_lst, health_status, save_input, save_result,
          entry>>

startupVars == <<started, vector_store, llm, qa_chain>>
ingestVars == <<save_input, save_result>>
deployVars == <<entry>>
pageVars == <<msg_lst, health_status>>
scanVars == <<all_messages, prior_messages, i, pairs_collected, chat_history>>
tryVars == <<invocations, invoked, exc, ai_msg>>

(* ------------------------------ helpers -------------------------------- *)
Min(a, b) == IF a < b THEN a ELSE b
Max(a, b) == IF a > b THEN a ELSE b

\* Message(role=..., content=..., conversation_id=...)
Message(role, content, conv) ==
    [role |-> role, content |-> content, conversation_id |-> conv]

NoMessage == [role |-> None, content |-> None, conversation_id |-> NoConv]
NoInvoke == [question |-> None, chat_history |-> <<>>]
NoStatus == [database |-> None, qa_chain |-> None]
NoSave == [chunks |-> 0, embedding |-> "ok", build |-> "ok", mkdir |-> "ok",
           save |-> "ok", index_exists |-> TRUE]
NotCalled == "not called"

\* Message.query.filter_by(conversation_id=conv).order_by(Message.timestamp).all()
Transcript(msgs, conv) ==
    SelectSeq(msgs, LAMBDA m : m.conversation_id = conv)

\* Python: a slice bound k of a list of length n, clamped to 0..n
PyBound(n, k) == IF k < 0 THEN Max(n + k, 0) ELSE Min(k, n)

\* Python: s[lo:hi]
PySlice(s, lo, hi) ==
    SubSeq(s, PyBound(Len(s), lo) + 1, PyBound(Len(s), hi))

\* Python: s[:hi]
PySliceTo(s, hi) == PySlice(s, 0, hi)

\* Python: s.insert(0, x)
InsertFront(s, x) == <<x>> \o s

(* ------------------ start-up: retriever.py, application.py ------------- *)
\* load_vector_store(): the FAISS store when the index exists and loads,
\* None when the index is absent or loading raised
load_vector_store(found) == IF found = "loaded" THEN "FAISS" ELSE None

\* load_llm(): the model, None, or an exception
load_llm(got) == IF got = "loaded" THEN "LLM" ELSE None

\* variant: the missing vector store is not checked for
create_qa_chain_nocheck(found, got) ==
    IF got = "raises" \/ load_llm(got) = None THEN None ELSE Chain

\* variant: a model that failed to load is not checked for
create_qa_chain_nollmcheck(found, got) ==
    IF load_vector_store(found) = None THEN None ELSE Chain

\* create_qa_chain(): every failure is caught and turned into None
create_qa_chain(found, got) ==
    IF load_vector_store(found) = None THEN None
    ELSE IF got = "raises" \/ load_llm(got) = None THEN None
    ELSE Chain

\* initialize_qa_chain(), run once before the server accepts requests
initialize_qa_chain ==
    /\ ~started
    /\ \E found \in {"loaded", "absent", "error"}, got \in {"loaded", "none", "raises"} :
        /\ vector_store' = found
        \* retriever.py:54-57: load_llm is only reached with a vector store
        /\ llm' = IF load_vector_store(found) = None THEN llm ELSE got
        /\ qa_chain' = create_qa_chain(found, got)
    /\ started' = TRUE
    /\ UNCHANGED <<messages, session, nextConv, pc, conv_id, user_input, before,
                   scanVars, tryVars, response, route, pageVars, ingestVars,
                   deployVars>>

(* --------------------- history windowing (pure part) ------------------- *)
\* variant: no recency cap, the window is the whole prefix
PriorMessages_whole(all) == PySliceTo(all, 0 - 1)

\* variant: the window reaches one pair further back than the recency cap
PriorMessages_wide(all) ==
    IF Len(all) > WindowThreshold
    THEN PySlice(all, 0 - (SliceStart + 2), 0 - 1)
    ELSE PySliceTo(all, 0 - 1)

\* variant: the slice is taken whatever the length, and one Turn shorter
PriorMessages_short(all) == PySlice(all, 0 - (SliceStart - 1), 0 - 1)

\* application.py:82-85
PriorMessages(all) ==
    IF Len(all) > WindowThreshold
    THEN PySlice(all, 0 - SliceStart, 0 - 1)
    ELSE PySliceTo(all, 0 - 1)

\* Python: s[k] for 0 <= k < len(s)
At(s, k) == s[k + 1]

\* application.py:95, the loop condition
LoopGuard(cursor, collected) == cursor >= 1 /\ collected < PairLimit

\* variant: the role of the Turn before the cursor is not looked at
IsPair_anyPrev(prior, cursor) == At(prior, cursor).role = "assistant"

\* application.py:99
IsPair(prior, cursor) ==
    At(prior, cursor).role = "assistant" /\ At(prior, cursor - 1).role = "user"

\* variant: the pair is appended instead of inserted at the front
NextHistory_append(hist, prior, cursor) ==
    IF IsPair(prior, cursor)
    THEN Append(hist, <<At(prior, cursor - 1).content, At(prior, cursor).content>>)
    ELSE hist

\* application.py:102
NextHistory(hist, prior, cursor) ==
    IF IsPair(prior, cursor)
    THEN InsertFront(hist, <<At(prior, cursor - 1).content, At(prior, cursor).content>>)
    ELSE hist

\* application.py:103
NextCollected(collected, prior, cursor) ==
    IF IsPair(prior, cursor) THEN collected + 1 ELSE collected

\* variant: the else branch forgets to move the cursor
NextCursor_stuck(prior, cursor) ==
    IF IsPair(prior, cursor) THEN cursor - 2 ELSE cursor

\* application.py:104 and 106
NextCursor(prior, cursor) ==
    IF IsPair(prior, cursor) THEN cursor - 2 ELSE cursor - 1

(* ---------------------- the try block (pure part) ---------------------- *)
\* application.py:122  response.get("answer", "No response generated")
ResponseGet(outcome) ==
    IF outcome.text = Missing THEN NoResponseMsg ELSE outcome.text

\* variant: a failed call of the chain is tried a second time
TryBlock_retry(chain, outcome) ==
    IF chain = None
    THEN [calls |-> 0, exc |-> NotInitializedMsg, result |-> None]
    ELSE IF outcome.kind = "raise"
         THEN [calls |-> 2, exc |-> outcome.text, result |-> None]
         ELSE [calls |-> 1, exc |-> None, result |-> ResponseGet(outcome)]

\* application.py:110-122: what the body of the try computes before it stores
TryBlock(chain, outcome) ==
    IF chain = None
    THEN [calls |-> 0, exc |-> NotInitializedMsg, result |-> None]
    ELSE IF outcome.kind = "raise"
         THEN [calls |-> 1, exc |-> outcome.text, result |-> None]
         ELSE [calls |-> 1, exc |-> None, result |-> ResponseGet(outcome)]

\* variant: the history is left out of the call
InvokeArgs_noHistory(question, hist) == [question |-> question, chat_history |-> <<>>]

\* application.py:118-121: the dict handed to qa_chain.invoke
InvokeArgs(question, hist) == [question |-> question, chat_history |-> hist]

\* variant: the stored text is the error_msg of line 134
ErrorAnswer_logText(cause) == "Error: " \o cause

\* application.py:141  f"I apologize, but I encountered an error: {str(e)}"
ErrorAnswer(cause) == ApologyPrefix \o cause

\* db.session.commit(): the pending rows become rows of the table
Commit(committed, pending) == committed \o pending

\* variant: the rollback also undoes the last committed row
Rollback_undoesCommit(committed, pending) ==
    SubSeq(committed, 1, Len(committed) - 1)

\* db.session.rollback(): pending rows are dropped, committed rows stay
Rollback(committed, pending) == committed

\* variant: the except clause logs the error and stores nothing
TryExcept_silent(t, conv) ==
    IF t.exc = None
    THEN [rows |-> <<Message("assistant", t.result, conv)>>, response |-> "redirect"]
    ELSE [rows |-> <<>>, response |-> "redirect"]

\* application.py:124-145: the rows stored by the try or by the except clause,
\* and what the handler then returns (line 147)
TryExcept(t, conv) ==
    IF t.exc = None
    THEN [rows |-> <<Message("assistant", t.result, conv)>>, response |-> "redirect"]
    ELSE [rows |-> <<Message("assistant", ErrorAnswer(t.exc), conv)>>,
          response |-> "redirect"]

(* ------------------------------ state ---------------------------------- *)
AppInit ==
    /\ started = FALSE
    /\ vector_store = "unloaded"
    /\ llm = "unloaded"
    /\ qa_chain = None
    /\ messages = <<>>
    /\ session = [c \in Clients |-> NoConv]
    /\ nextConv = 0
    /\ pc = [r \in Requests |-> "idle"]
    /\ conv_id = [r \in Requests |-> NoConv]
    /\ user_input = [r \in Requests |-> None]
    /\ before = [r \in Requests |-> <<>>]
    /\ all_messages = [r \in Requests |-> <<>>]
    /\ prior_messages = [r \in Requests |-> <<>>]
    /\ i = [r \in Requests |-> 0]
    /\ pairs_collected = [r \in Requests |-> 0]
    /\ chat_history = [r \in Requests |-> <<>>]
    /\ invocations = [r \in Requests |-> 0]
    /\ invoked = [r \in Requests |-> NoInvoke]
    /\ exc = [r \in Requests |-> None]
    /\ ai_msg = [r \in Requests |-> NoMessage]
    /\ response = [r \in Requests |-> None]
    /\ route = [r \in Requests |-> None]
    /\ msg_lst = [r \in Requests |-> <<>>]
    /\ health_status = [r \in Requests |-> NoStatus]

Init ==
    /\ AppInit
    /\ save_input = NoSave
    /\ save_result = NotCalled
    /\ entry = "application"

\* no other request is in flight
OneAtATime(r) == \A o \in Requests \ {r} : pc[o] = "idle"

\* the message table has room for a question and its answer
HasRoom == Len(messages) + 2 <= MaxMsgs

\* application.py:61-64: the conversation_id of the session, a fresh uuid4 if it has none
SessionConv(c) == IF session[c] = NoConv THEN nextConv + 1 ELSE session[c]

\* application.py:61-62
EnsureSession(c) ==
    /\ session[c] = NoConv => nextConv < MaxConv
    /\ session' = [session EXCEPT ![c] = SessionConv(c)]
    /\ nextConv' = IF session[c] = NoConv THEN nextConv + 1 ELSE nextConv

(* ----------------------------- handlers -------------------------------- *)
\* variant: the test is "is not None"
Truthy_notNone(prompt) == prompt # None

\* application.py:69  if user_input: a str is true unless it is empty, None is false
Truthy(prompt) == prompt # None /\ prompt # Blank

\* POST /, application.py:59-73 (main.py:128-144): session, form field, and for a
\* non-blank prompt the committed save of the user message; a blank prompt goes
\* straight to the redirect of line 147
PostBegin(r, prompt) ==
    /\ started
    /\ pc[r] = "idle"
    /\ EnsureSession(ClientOf[r])
    /\ conv_id' = [conv_id EXCEPT ![r] = SessionConv(ClientOf[r])]
    /\ user_input' = [user_input EXCEPT ![r] = prompt]
    /\ before' = [before EXCEPT ![r] = Transcript(messages, SessionConv(ClientOf[r]))]
    /\ route' = [route EXCEPT ![r] = "post"]
    /\ IF Truthy(prompt)
       THEN /\ messages' = Commit(messages,
                                  <<Message("user", prompt, SessionConv(ClientOf[r]))>>)
            /\ pc' = [pc EXCEPT ![r] = "saved"]
            /\ UNCHANGED response
       ELSE /\ messages' = messages
            /\ pc' = [pc EXCEPT ![r] = "done"]
            /\ response' = [response EXCEPT ![r] = "redirect"]
    /\ UNCHANGED <<startupVars, scanVars, tryVars, pageVars, ingestVars,
                   deployVars>>

\* application.py:76-93 (main.py:147-160): read the transcript, cut the window,
\* set up the scan
Query(r) ==
    /\ pc[r] = "saved"
    /\ LET all == Transcript(messages, conv_id[r])
           prior == PriorMessages(all)
       IN /\ all_messages' = [all_messages EXCEPT ![r] = all]
          /\ prior_messages' = [prior_messages EXCEPT ![r] = prior]
          /\ chat_history' = [chat_history EXCEPT ![r] = <<>>]
          /\ i' = [i EXCEPT ![r] = Len(prior) - 1]
          /\ pairs_collected' = [pairs_collected EXCEPT ![r] = 0]
    /\ pc' = [pc EXCEPT ![r] = "scan"]
    /\ UNCHANGED <<startupVars, messages, session, nextConv, conv_id, user_input,
                   before, tryVars, response, route, pageVars, ingestVars,
                   deployVars>>

\* application.py:95-106 (main.py:162-171): one iteration of the while loop
ScanStep(r) ==
    /\ pc[r] = "scan"
    /\ LoopGuard(i[r], pairs_collected[r])
    /\ chat_history' = [chat_history EXCEPT
                          ![r] = NextHistory(chat_history[r], prior_messages[r], i[r])]
    /\ pairs_collected' = [pairs_collected EXCEPT
                          ![r] = NextCollected(pairs_collected[r], prior_messages[r], i[r])]
    /\ i' = [i EXCEPT ![r] = NextCursor(prior_messages[r], i[r])]
    /\ UNCHANGED <<startupVars, messages, session, nextConv, pc, conv_id, user_input,
                   before, all_messages, prior_messages, tryVars, response, route,
                   pageVars, ingestVars,
                   deployVars>>

\* application.py:95: the loop condition is false, the loop is left
ScanExit(r) ==
    /\ pc[r] = "scan"
    /\ ~LoopGuard(i[r], pairs_collected[r])
    /\ pc' = [pc EXCEPT ![r] = "try"]
    /\ UNCHANGED <<startupVars, messages, session, nextConv, conv_id, user_input,
                   before, scanVars, tryVars, response, route, pageVars, ingestVars,
                   deployVars>>

\* application.py:110-147 (main.py:175-212): the try/except around the chain call,
\* the committed save of the assistant message, the redirect
Try(r, outcome) ==
    /\ pc[r] = "try"
    /\ LET t == TryBlock(qa_chain, outcome)
           h == TryExcept(t, conv_id[r])
       IN /\ invocations' = [invocations EXCEPT ![r] = @ + t.calls]
          /\ invoked' = [invoked EXCEPT
                           ![r] = IF t.calls = 0 THEN @
                                  ELSE InvokeArgs(user_input[r], chat_history[r])]
          /\ exc' = [exc EXCEPT ![r] = t.exc]
          /\ ai_msg' = [ai_msg EXCEPT
                           ![r] = IF h.rows = <<>> THEN @ ELSE h.rows[Len(h.rows)]]
          /\ messages' = IF t.exc = None
                         THEN Commit(messages, h.rows)
                         ELSE Commit(Rollback(messages, <<>>), h.rows)
          /\ response' = [response EXCEPT ![r] = h.response]
    /\ pc' = [pc EXCEPT ![r] = "done"]
    /\ UNCHANGED <<startupVars, session, nextConv, conv_id, user_input, before, scanVars,
                   route, pageVars, ingestVars,
                   deployVars>>

\* application.py:154  [{"role": msg.role, "content": msg.content} for msg in messages]
MsgLst(rows) == [k \in 1..Len(rows) |-> [role |-> rows[k].role, content |-> rows[k].content]]

\* GET /, application.py:61-64 and 149-156 (main.py:100-119): display the transcript
IndexGet(r) ==
    /\ started
    /\ pc[r] = "idle"
    /\ EnsureSession(ClientOf[r])
    /\ conv_id' = [conv_id EXCEPT ![r] = SessionConv(ClientOf[r])]
    /\ before' = [before EXCEPT ![r] = Transcript(messages, SessionConv(ClientOf[r]))]
    /\ pc' = [pc EXCEPT ![r] = "done"]
    /\ response' = [response EXCEPT ![r] = "page"]
    /\ route' = [route EXCEPT ![r] = "get"]
    /\ msg_lst' = [msg_lst EXCEPT
                     ![r] = MsgLst(Transcript(messages, SessionConv(ClientOf[r])))]
    /\ UNCHANGED <<startupVars, messages, user_input, scanVars, tryVars, health_status,
                   ingestVars,
                   deployVars>>

\* variant: the delete is not filtered by conversation
DeleteConversation_all(msgs, conv) == <<>>

\* application.py:164  Message.query.filter_by(conversation_id=conv_id).delete()
DeleteConversation(msgs, conv) ==
    SelectSeq(msgs, LAMBDA m : m.conversation_id # conv)

\* GET /clear, application.py:159-168 (main.py:214-223)
Clear(r) ==
    /\ started
    /\ pc[r] = "idle"
    /\ conv_id' = [conv_id EXCEPT ![r] = session[ClientOf[r]]]
    /\ before' = [before EXCEPT ![r] = Transcript(messages, session[ClientOf[r]])]
    /\ messages' = IF session[ClientOf[r]] # NoConv
                   THEN DeleteConversation(messages, session[ClientOf[r]])
                   ELSE messages
    /\ session' = [session EXCEPT ![ClientOf[r]] = NoConv]
    /\ pc' = [pc EXCEPT ![r] = "done"]
    /\ response' = [response EXCEPT ![r] = "redirect"]
    /\ route' = [route EXCEPT ![r] = "clear"]
    /\ UNCHANGED <<startupVars, nextConv, user_input, scanVars, tryVars, pageVars,
                   ingestVars,
                   deployVars>>

\* variant: the chain entry is as fixed as the database entry
HealthStatus_fixed(chain) == [database |-> "ok", qa_chain |-> "ok"]

\* application.py:174-177: the status dict
HealthStatus(chain) ==
    [database |-> "ok", qa_chain |-> IF chain # None THEN "ok" ELSE "error"]

\* application.py:178: the HTTP status code
HealthCode(chain) == IF chain # None THEN "200" ELSE "503"

\* main.py:232-233: status_code is computed and dropped, "return status" leaves
\* the framework's default code
HealthCodeMain(chain) == "200"

\* the HTTP status code of the health check of an entry point
HealthResponse(e, chain) ==
    IF e = "application" THEN HealthCode(chain) ELSE HealthCodeMain(chain)

\* GET /health, application.py:171-178 (main.py:225-233)
Health(r) ==
    /\ started
    /\ pc[r] = "idle"
    /\ health_status' = [health_status EXCEPT ![r] = HealthStatus(qa_chain)]
    /\ response' = [response EXCEPT ![r] = HealthResponse(entry, qa_chain)]
    /\ route' = [route EXCEPT ![r] = "health"]
    /\ pc' = [pc EXCEPT ![r] = "done"]
    /\ UNCHANGED <<startupVars, messages, session, nextConv, conv_id, user_input, before,
                   scanVars, tryVars, msg_lst, ingestVars,
                   deployVars>>

\* the response leaves the handler; its locals are gone
Respond(r) ==
    /\ pc[r] = "done"
    /\ pc' = [pc EXCEPT ![r] = "idle"]
    /\ conv_id' = [conv_id EXCEPT ![r] = NoConv]
    /\ user_input' = [user_input EXCEPT ![r] = None]
    /\ before' = [before EXCEPT ![r] = <<>>]
    /\ all_messages' = [all_messages EXCEPT ![r] = <<>>]
    /\ prior_messages' = [prior_messages EXCEPT ![r] = <<>>]
    /\ i' = [i EXCEPT ![r] = 0]
    /\ pairs_collected' = [pairs_collected EXCEPT ![r] = 0]
    /\ chat_history' = [chat_history EXCEPT ![r] = <<>>]
    /\ invocations' = [invocations EXCEPT ![r] = 0]
    /\ invoked' = [invoked EXCEPT ![r] = NoInvoke]
    /\ exc' = [exc EXCEPT ![r] = None]
    /\ ai_msg' = [ai_msg EXCEPT ![r] = NoMessage]
    /\ response' = [response EXCEPT ![r] = None]
    /\ route' = [route EXCEPT ![r] = None]
    /\ msg_lst' = [msg_lst EXCEPT ![r] = <<>>]
    /\ health_status' = [health_status EXCEPT ![r] = NoStatus]
    /\ UNCHANGED <<startupVars, messages, session, nextConv, ingestVars,
                   deployVars>>

(* --------------------- Spec: requests one at a time --------------------- *)
SeqPost ==
    \E r \in Requests, p \in Questions \cup BlankPrompts :
        OneAtATime(r) /\ (Truthy(p) => HasRoom) /\ PostBegin(r, p)
SeqGet == \E r \in Requests : OneAtATime(r) /\ IndexGet(r)
SeqClear == \E r \in Requests : OneAtATime(r) /\ Clear(r)
SeqHealth == \E r \in Requests : OneAtATime(r) /\ Health(r)
DoQuery == \E r \in Requests : Query(r)
DoScanStep == \E r \in Requests : ScanStep(r)
DoScanExit == \E r \in Requests : ScanExit(r)
DoTry == \E r \in Requests, o \in PipelineOutcomes : Try(r, o)
DoRespond == \E r \in Requests : Respond(r)

Next ==
    \/ initialize_qa_chain
    \/ SeqPost
    \/ SeqGet
    \/ SeqClear
    \/ SeqHealth
    \/ DoQuery
    \/ DoScanStep
    \/ DoScanExit
    \/ DoTry
    \/ DoRespond

Spec == Init /\ [][Next]_vars

(* ------- SpecWin: history windowing over every stored transcript -------- *)
\* A request that has just saved its question on top of an arbitrary stored
\* transcript (any roles, in any order); the turn at position k has text TurnText[k].
InitWin ==
    /\ started = TRUE
    /\ vector_store = "loaded"
    /\ llm = "loaded"
    /\ qa_chain = Chain
    /\ \E n \in 1..MaxLen :
         \E roles \in [1..(n - 1) -> {"user", "assistant"}] :
            /\ messages = [k \in 1..n |->
                             Message(IF k = n THEN "user" ELSE roles[k], TurnText[k], 1)]
            /\ user_input = [r \in Requests |-> IF r = "r1" THEN TurnText[n] ELSE None]
            /\ before = [r \in Requests |->
                           IF r = "r1"
                           THEN [k \in 1..(n - 1) |-> Message(roles[k], TurnText[k], 1)]
                           ELSE <<>>]
    /\ session = [c \in Clients |-> IF c = ClientOf["r1"] THEN 1 ELSE NoConv]
    /\ nextConv = 1
    /\ pc = [r \in Requests |-> IF r = "r1" THEN "saved" ELSE "idle"]
    /\ conv_id = [r \in Requests |-> IF r = "r1" THEN 1 ELSE NoConv]
    /\ all_messages = [r \in Requests |-> <<>>]
    /\ prior_messages = [r \in Requests |-> <<>>]
    /\ i = [r \in Requests |-> 0]
    /\ pairs_collected = [r \in Requests |-> 0]
    /\ chat_history = [r \in Requests |-> <<>>]
    /\ invocations = [r \in Requests |-> 0]
    /\ invoked = [r \in Requests |-> NoInvoke]
    /\ exc = [r \in Requests |-> None]
    /\ ai_msg = [r \in Requests |-> NoMessage]
    /\ response = [r \in Requests |-> None]
    /\ route = [r \in Requests |-> IF r = "r1" THEN "post" ELSE None]
    /\ msg_lst = [r \in Requests |-> <<>>]
    /\ health_status = [r \in Requests |-> NoStatus]
    /\ save_input = NoSave
    /\ save_result = NotCalled
    /\ entry = "application"

NextWin ==
    \/ DoQuery
    \/ DoScanStep
    \/ DoScanExit

SpecWin == InitWin /\ [][NextWin]_vars

\* the handler is sequential code: once entered, the scan keeps running
SpecWinFair == SpecWin /\ WF_vars(NextWin)

(* ---------- SpecConc: answer requests of one conversation interleave ----- *)
\* fewer than MaxConcQuestions questions have been stored
ConcRoom ==
    Cardinality({k \in 1..Len(messages) : messages[k].role = "user"}) < MaxConcQuestions

ConcPost == \E r \in Requests, p \in Questions : ConcRoom /\ PostBegin(r, p)

NextConc ==
    \/ initialize_qa_chain
    \/ ConcPost
    \/ DoQuery
    \/ DoScanStep
    \/ DoScanExit
    \/ DoTry
    \/ DoRespond

SpecConc == Init /\ [][NextConc]_vars

(* ------------ SpecEntry: either entry point is the one served ----------- *)
InitEntry ==
    /\ AppInit
    /\ save_input = NoSave
    /\ save_result = NotCalled
    /\ entry \in EntryPoints

SpecEntry == InitEntry /\ [][Next]_vars

(* ------------- SpecSave: ingestion, vector_store.py:55-91 --------------- *)
\* what one call of save_vector_store is given (number of chunks) and meets:
\* get_embedding_model, FAISS.from_documents, mkdir and save_local succeed or
\* raise, and index.faiss exists or not after the save
SaveInputs ==
    [chunks : 0..MaxChunks,
     embedding : {"ok", "CustomException", "Exception"},
     build : {"ok", "Exception"},
     mkdir : {"ok", "Exception"},
     save : {"ok", "Exception"},
     index_exists : BOOLEAN]

\* vector_store.py:55-91: the saved store, a raised CustomException, or None
SaveVectorStore(inp) ==
    IF inp.chunks = 0 THEN "CustomException"
    ELSE IF inp.embedding = "CustomException" THEN "CustomException"
    ELSE IF inp.embedding = "Exception" THEN None
    ELSE IF inp.build = "Exception" THEN None
    ELSE IF inp.mkdir = "Exception" THEN None
    ELSE IF inp.save = "Exception" THEN None
    ELSE IF ~inp.index_exists THEN "CustomException"
    ELSE "FAISS"

save_vector_store ==
    /\ save_result = NotCalled
    /\ save_result' = SaveVectorStore(save_input)
    /\ UNCHANGED <<startupVars, messages, session, nextConv, pc, conv_id, user_input,
                   before, scanVars, tryVars, response, route, pageVars, save_input,
                   deployVars>>

InitSave ==
    /\ AppInit
    /\ save_input \in SaveInputs
    /\ save_result = NotCalled
    /\ entry = "application"

NextSave == save_vector_store

SpecSave == InitSave /\ [][NextSave]_vars

(* ============================ properties =============================== *)
\* the request has read the transcript and cut its window
Scanned(r) == pc[r] \in {"scan", "try"}

\* the Turns before the current question, as the request read them
Prefix(r) == SubSeq(all_messages[r], 1, Len(all_messages[r]) - 1)

\* the last n elements of s (all of s when it is shorter)
LastN(s, n) == SubSeq(s, Max(1, Len(s) - n + 1), Len(s))

RolesOf(s) == [k \in 1..Len(s) |-> s[k].role]

\* position in the transcript of the Turn with the given text (texts of a
\* SpecWin transcript are distinct)
PosOf(all, text) == CHOOSE k \in 1..Len(all) : all[k].content = text

\* the texts used by the pairs of a history
TextsOf(hist) == UNION {{hist[k][1], hist[k][2]} : k \in 1..Len(hist)}

\* C1: whenever the prefix before the current question has 6 or more Turns,
\* the window that is scanned is exactly the last 6 Turns of the prefix, and for
\* a prefix ending user, assistant, user, assistant, user, assistant the result
\* is those 3 pairs.
C1_ScansLastSix ==
    \A r \in Requests :
        (Scanned(r) /\ Len(Prefix(r)) >= 6) =>
            /\ prior_messages[r] = LastN(Prefix(r), 6)
            /\ (pc[r] = "try" /\ RolesOf(LastN(Prefix(r), 6)) =
                    <<"user", "assistant", "user", "assistant", "user", "assistant">>)
               => LET w == LastN(Prefix(r), 6)
                  IN chat_history[r] = << <<w[1].content, w[2].content>>,
                                         <<w[3].content, w[4].content>>,
                                         <<w[5].content, w[6].content>> >>

\* C2: for every transcript the history holds at most 5 pairs, every Turn used
\* in a pair lies within the last 6 Turns of the prefix before the current
\* question, and the current question is never part of a pair.
C2_WindowBound ==
    \A r \in Requests :
        Scanned(r) =>
            /\ Len(chat_history[r]) <= 5
            /\ \A text \in TextsOf(chat_history[r]) :
                /\ PosOf(all_messages[r], text) >= Len(all_messages[r]) - 6
                /\ PosOf(all_messages[r], text) <= Len(all_messages[r]) - 1
                /\ text # user_input[r]

C2_Witness ==
    \E r \in Requests :
        /\ pc[r] = "try"
        /\ Len(all_messages[r]) >= 8
        /\ Len(chat_history[r]) >= 2

\* C5: every pair of the history is (text of a user Turn, text of the assistant
\* Turn at the next position of the window), no Turn is used by two pairs, and
\* the prefix [user A, assistant B, user C, assistant D] gives [(A,B), (C,D)].
C5_Pairing ==
    \A r \in Requests :
        Scanned(r) =>
            /\ \A k \in 1..Len(chat_history[r]) :
                 \E j \in 1..(Len(prior_messages[r]) - 1) :
                    /\ prior_messages[r][j].role = "user"
                    /\ prior_messages[r][j + 1].role = "assistant"
                    /\ chat_history[r][k] = <<prior_messages[r][j].content,
                                              prior_messages[r][j + 1].content>>
            /\ Cardinality(TextsOf(chat_history[r])) = 2 * Len(chat_history[r])
            /\ (pc[r] = "try" /\ RolesOf(all_messages[r]) =
                    <<"user", "assistant", "user", "assistant", "user">>)
               => chat_history[r] = << <<"A", "B">>, <<"C", "D">> >>

C5_Witness ==
    \E r \in Requests :
        /\ pc[r] = "try"
        /\ RolesOf(all_messages[r]) = <<"user", "assistant", "user", "assistant", "user">>
        /\ Len(chat_history[r]) = 2

\* C6: the pairs of the history are in chronological order: the Turns of a pair
\* listed earlier come earlier in the transcript than the Turns of a pair
\* listed later.
C6_Chronological ==
    \A r \in Requests :
        Scanned(r) =>
            \A k, l \in 1..Len(chat_history[r]) :
                k < l => /\ PosOf(all_messages[r], chat_history[r][k][1])
                              < PosOf(all_messages[r], chat_history[r][k][2])
                         /\ PosOf(all_messages[r], chat_history[r][k][2])
                              < PosOf(all_messages[r], chat_history[r][l][1])

C6_Witness ==
    \E r \in Requests :
        /\ pc[r] = "try"
        /\ Len(chat_history[r]) >= 2
        /\ RolesOf(prior_messages[r]) # <<"user", "assistant", "user", "assistant">>

\* C7: for every sequence of roles the backward scan ends without an index
\* error: each iteration reads inside the window and strictly decreases the
\* cursor, a request that saved its question reaches the end of the scan, and
\* the prefix [user A, assistant B, assistant C] gives [(A,B)].
C7_ScanTerminates ==
    /\ [][\A r \in Requests : ScanStep(r) => i'[r] < i[r]]_vars
    /\ [](\A r \in Requests :
            (pc[r] = "scan" /\ LoopGuard(i[r], pairs_collected[r])) =>
                (i[r] - 1 >= 0 /\ i[r] <= Len(prior_messages[r]) - 1))
    /\ \A r \in Requests : (pc[r] = "saved") ~> (pc[r] = "try")
    /\ [](\A r \in Requests :
            (pc[r] = "try" /\ RolesOf(all_messages[r]) =
                <<"user", "assistant", "assistant", "user">>)
            => chat_history[r] = << <<"A", "B">> >>)

C7_Witness ==
    \E r \in Requests :
        /\ pc[r] = "try"
        /\ RolesOf(all_messages[r]) = <<"user", "assistant", "assistant", "user">>
        /\ chat_history[r] = << <<"A", "B">> >>

\* C8: when the prefix before the current question has fewer than 6 Turns the
\* scanned window is the whole prefix, and an empty prefix gives the empty
\* history.
C8_ShortPrefix ==
    \A r \in Requests :
        (Scanned(r) /\ Len(Prefix(r)) < 6) =>
            /\ prior_messages[r] = Prefix(r)
            /\ (pc[r] = "try" /\ Len(Prefix(r)) = 0) => chat_history[r] = <<>>

C8_Witness ==
    \E r \in Requests :
        /\ pc[r] = "try"
        /\ Len(Prefix(r)) = 5
        /\ Len(prior_messages[r]) = 5
        /\ Len(chat_history[r]) = 2

\* the request has run its handler to the end for a non-blank question
Answered(r) == pc[r] = "done" /\ user_input[r] \notin {None, Blank}

Alternates(t) ==
    /\ Len(t) % 2 = 0
    /\ \A k \in 1..Len(t) : t[k].role = IF k % 2 = 1 THEN "user" ELSE "assistant"

C9_IndexUnavailable ==
    \A r \in Requests :
        (Answered(r) /\ vector_store \in {"absent", "error"}) =>
            /\ ai_msg[r] = Message("assistant",
                   "I apologize, but I encountered an error: QA system not initialized. Please check server logs for configuration errors.",
                   conv_id[r])
            /\ Len(messages) > 0
            /\ messages[Len(messages)] = ai_msg[r]
            /\ invocations[r] = 0
            /\ invoked[r] = NoInvoke
            /\ response[r] = "redirect"

C9_Witness ==
    \E r \in Requests :
        /\ Answered(r)
        /\ vector_store = "error"
        /\ invocations[r] = 0
        /\ Len(before[r]) >= 2

\* C10: whenever the pipeline invocation raises an exception with cause text c,
\* the request stores an assistant Turn whose text is exactly
\* "I apologize, but I encountered an error: " followed by c, and returns its
\* redirect instead of propagating the exception.
C10_ErrorAnswer ==
    \A r \in Requests :
        (pc[r] = "done" /\ invocations[r] >= 1 /\ exc[r] # None) =>
            /\ ai_msg[r] = Message("assistant",
                                   "I apologize, but I encountered an error: " \o exc[r],
                                   conv_id[r])
            /\ Len(messages) > 0
            /\ messages[Len(messages)] = ai_msg[r]
            /\ response[r] = "redirect"

C10_Witness ==
    \E r \in Requests :
        /\ pc[r] = "done"
        /\ invocations[r] = 1
        /\ exc[r] = "LLM backend timeout"
        /\ qa_chain = Chain

\* pipeline construction failed at start-up
Degraded ==
    started /\ (vector_store \in {"absent", "error"} \/ llm \in {"none", "raises"})

\* C11: when pipeline construction fails (vector store absent or LLM not
\* loaded) start-up still completes and leaves the pipeline absent; display and
\* clear requests complete then as they do with a pipeline: the page shows the
\* transcript of the session's conversation, clear empties that conversation,
\* drops the session and redirects.
C11_DegradedStillServes ==
    /\ Degraded => qa_chain = None
    /\ \A r \in Requests :
        pc[r] = "done" =>
            /\ route[r] = "get" =>
                /\ response[r] = "page"
                /\ conv_id[r] # NoConv
                /\ session[ClientOf[r]] = conv_id[r]
                /\ Len(msg_lst[r]) = Len(Transcript(messages, conv_id[r]))
                /\ \A k \in 1..Len(msg_lst[r]) :
                     /\ msg_lst[r][k].role = Transcript(messages, conv_id[r])[k].role
                     /\ msg_lst[r][k].content = Transcript(messages, conv_id[r])[k].content
            /\ route[r] = "clear" =>
                /\ response[r] = "redirect"
                /\ session[ClientOf[r]] = NoConv
                /\ conv_id[r] # NoConv => Transcript(messages, conv_id[r]) = <<>>

C11_Witness ==
    /\ Degraded
    /\ llm = "none"
    /\ qa_chain = None
    /\ \E r \in Requests :
        /\ pc[r] = "done"
        /\ route[r] = "get"
        /\ Len(msg_lst[r]) >= 2

C13_ReadyFixedAtStartup ==
    /\ [](\A r \in Requests :
            (pc[r] = "done" /\ route[r] = "health") =>
                /\ health_status[r].qa_chain = "ok"
                       <=> (vector_store = "loaded" /\ llm = "loaded")
                /\ response[r] = "200" <=> (vector_store = "loaded" /\ llm = "loaded")
                /\ response[r] \in {"200", "503"})
    /\ [][started => UNCHANGED <<started, vector_store, llm, qa_chain>>]_vars

C13_Witness ==
    \E r \in Requests :
        /\ pc[r] = "done"
        /\ route[r] = "health"
        /\ health_status[r].qa_chain = "error"
        /\ vector_store = "loaded"
        /\ Len(messages) >= 2

\* C14: within one answer request the pipeline is invoked at most once, and the
\* invocation is the last thing before the handler stores its answer: after a
\* failed invocation the request holds the error answer and is finished.
C14_NoRetry ==
    \A r \in Requests :
        /\ invocations[r] <= 1
        /\ invocations[r] = 1 => pc[r] = "done"
        /\ (invocations[r] = 1 /\ exc[r] # None) =>
              ai_msg[r].content = ApologyPrefix \o exc[r]

C14_Witness ==
    \E r \in Requests :
        /\ pc[r] = "done"
        /\ invocations[r] = 1
        /\ exc[r] \in Causes
        /\ Len(before[r]) = 0

\* C15: every pipeline invocation receives the submitted question text
\* unmodified (the text of the user Turn the request stored) together with
\* exactly the history the windowing produced; with no prior Turns that history
\* is empty.
C15_InvokeArguments ==
    \A r \in Requests :
        invocations[r] >= 1 =>
            /\ invoked[r].question = user_input[r]
            /\ invoked[r].question = all_messages[r][Len(all_messages[r])].content
            /\ invoked[r].chat_history = chat_history[r]
            /\ Len(before[r]) = 0 => invoked[r].chat_history = <<>>
            /\ Len(before[r]) >= 2 => Len(invoked[r].chat_history) >= 1

C15_Witness ==
    \E r \in Requests :
        /\ invocations[r] = 1
        /\ Len(invoked[r].chat_history) = 2
        /\ invoked[r].question = "Explain more on that."

\* C16: a clear request removes every Turn of the session's conversation and
\* leaves the Turns of every other conversation as they are; every other step
\* only appends to the message table.
C16_ClearFrame ==
    [][IF \E r \in Requests : pc[r] = "idle" /\ route'[r] = "clear"
       THEN \A r \in Requests :
              (pc[r] = "idle" /\ route'[r] = "clear") =>
                 \A c \in 1..MaxConv :
                    Transcript(messages', c) =
                        IF c = session[ClientOf[r]] THEN <<>> ELSE Transcript(messages, c)
       ELSE /\ Len(messages') >= Len(messages)
            /\ SubSeq(messages', 1, Len(messages)) = messages]_vars

C16_Witness ==
    \E r \in Requests :
        /\ pc[r] = "done"
        /\ route[r] = "clear"
        /\ Len(before[r]) >= 2
        /\ Len(messages) >= 2

\* C17: when the pipeline invocation raises, the rollback of the error path
\* undoes the save of the request's user message: after the request the
\* transcript holds the Turns it held at entry and the error answer, without
\* the user Turn of the failed request.
C17_RollbackUndoesUserSave ==
    \A r \in Requests :
        (pc[r] = "done" /\ invocations[r] >= 1 /\ exc[r] # None) =>
            Transcript(messages, conv_id[r]) = before[r] \o <<ai_msg[r]>>

\* one of the steps of save_vector_store failed
SaveFailed(inp) ==
    \/ inp.chunks = 0
    \/ inp.embedding # "ok"
    \/ inp.build # "ok"
    \/ inp.mkdir # "ok"
    \/ inp.save # "ok"
    \/ ~inp.index_exists

\* C18: save_vector_store returns the saved vector store, or raises
\* CustomException on every failure (no chunks, embedding or build failure, save
\* failure, index file missing after the save); it never returns None.
C18_NeverReturnsNone ==
    save_result # NotCalled =>
        /\ save_result # None
        /\ save_result = IF SaveFailed(save_input) THEN "CustomException" ELSE "FAISS"

\* C19: when two answer requests of one conversation interleave, the Turn a
\* request leaves out as the current question is its own question, and its own
\* question (a user Turn stored after the request was entered) is never inside
\* the window it scans.
C19_OwnQuestionExcluded ==
    \A r \in Requests :
        (Scanned(r) /\ route[r] = "post") =>
            /\ Len(all_messages[r]) = Len(before[r]) + 1
            /\ all_messages[r][Len(all_messages[r])] =
                   Message("user", user_input[r], conv_id[r])
            /\ \A k \in 1..Len(prior_messages[r]) :
                 k + (Len(all_messages[r]) - 1 - Len(prior_messages[r])) > Len(before[r])
                    => prior_messages[r][k] # Message("user", user_input[r], conv_id[r])

C21_HealthEquivalent ==
    \A r \in Requests :
        (pc[r] = "done" /\ route[r] = "health") =>
            /\ health_status[r].qa_chain = IF qa_chain = None THEN "error" ELSE "ok"
            /\ response[r] = IF qa_chain = None THEN "503" ELSE "200"

====
